---- MODULE Spec2Model ----
(***************************************************************************)
(* Query routing and retrieval pipeline of the knowledge-base backend:     *)
(* the four chains run by ChainManager.execute_pipeline, the router that   *)
(* wraps them (IntelligentMultiDepartmentRouter.route_query), the          *)
(* streaming and non-streaming query services, and the per-session         *)
(* conversation history.                                                   *)
(*                                                                         *)
(* Conventions.  Confidences, scores and thresholds are fixed-point        *)
(* numbers in hundredths (0.25 is 25); vector distances likewise (a cosine *)
(* distance of 1.5 is 150).  Text is a sequence of tokens, so that         *)
(* "contains" and concatenation are real operations.  The folder the       *)
(* source spells with the two Chinese characters for "public" is PUBLIC.   *)
(***************************************************************************)
EXTENDS Integers, Sequences, FiniteSets, Bags, TLC

(***************************************************************************)
(* Bounds of the model.                                                    *)
(***************************************************************************)
MaxReturned == 2      \* documents one backend search call returns at most
MaxChunks == 1        \* chunks the generation stream yields at most
MaxMessages == 4      \* max_messages of the ChatHistoryManager under test

(***************************************************************************)
(* Values.                                                                 *)
(***************************************************************************)
None == "None"                 \* Python None / an absent value
MISSING == "MISSING"           \* a metadata key that is absent
PUBLIC == "gonggong"           \* the universal public folder
Departments == {"hr", "tech"}
Folders == Departments \cup {PUBLIC}

InSeq(x, s) == \E i \in 1..Len(s) : s[i] = x
ToSet(s) == {s[i] : i \in 1..Len(s)}
Max(a, b) == IF a >= b THEN a ELSE b
Min(a, b) == IF a <= b THEN a ELSE b
Prefix(s, n) == SubSeq(s, 1, Min(n, Len(s)))
DropFirst_nothing(s, n) == <<>>
DropFirst(s, n) == SubSeq(s, Min(n, Len(s)) + 1, Len(s))

(***************************************************************************)
(* State.                                                                  *)
(***************************************************************************)
VARIABLES
    pc,                 \* where the request handler stands
    request,            \* the QueryRequest being served
    vector_manager,     \* "ok", or "unavailable" (get_vector_manager gave None)
    user_context,       \* pipeline data: UserContext
    intent_analysis,    \* pipeline data: IntentAnalysis
    retrieval_strategy, \* pipeline data: RetrievalStrategy
    strategy_origin,    \* "determined" or "fallback" (the except branch)
    documents,          \* pipeline data: the DocumentResult list
    search_calls,       \* the search calls of this run: [tier, k, outcome, n]
    retrieved,          \* what layered retrieval handed to the filter
    execution_results,  \* execute_pipeline: [chain, success] per executed chain
    pipeline_success,   \* execute_pipeline's "success": "pending", "yes", "no"
    error_msg,          \* text of the error that aborted the pipeline
    query_result,       \* what route_query returned
    docs_to_use,        \* documents handed to answer generation
    mode,               \* response mode of the run
    stream_state,       \* the generation stream
    llm_calls,          \* generation calls made for this query
    full_answer,        \* the answer delivered (tokens)
    events,             \* events the streaming service has yielded
    histories,          \* ChatHistoryManager.histories
    clients,            \* concurrent streaming requests, seen from the history
    append_log,         \* per session: the messages appended since it was empty
    planner_calls,      \* bag of the strategy stage's calls: inputs and output
    identity,           \* what the identity store answered for this request
    llm_response,       \* the classifier call: how invoke ended, the raw text
    chat_messages,      \* rows of the chat_messages table of one chat session
    chat_writers,       \* add_chat_message calls in flight on that session
    store_chunks,       \* VectorManager.vector_store: the chunks it holds
    document_cache      \* VectorManager.document_cache (for BM25)

(***************************************************************************)
(* RetrievalStrategyChain: the planner.                                    *)
(***************************************************************************)
\* _calculate_max_results: words is len(query.split())
calculate_max_results(words, confidence) ==
    LET base == 5
        byLength == IF words > 10 THEN base + 2
                    ELSE IF words < 5 THEN base - 1 ELSE base
        byConf == IF confidence > 80 THEN byLength + 1
                  ELSE IF confidence < 30 THEN byLength + 2 ELSE byLength
    IN Max(3, Min(byConf, 10))

\* calculate_relevance_threshold with the fallback strategy's threshold in
\* the high-confidence branch
calculate_relevance_threshold_strict(confidence) ==
    IF confidence > 80 THEN 30
    ELSE IF confidence > 50 THEN 20 ELSE 15

\* _calculate_relevance_threshold
calculate_relevance_threshold(confidence) ==
    IF confidence > 80 THEN 25
    ELSE IF confidence > 50 THEN 20 ELSE 15

PublicIfAccessible(accessible_folders) ==
    IF InSeq(PUBLIC, accessible_folders) THEN <<PUBLIC>> ELSE <<>>

\* determine_primary that does not add the public folder in the
\* medium-confidence branch
determine_primary_without_public(uc, detected, confidence) ==
    LET af == uc.accessible_folders IN
    IF detected # None /\ confidence > 70 THEN
        IF InSeq(detected, af) THEN <<detected>> ELSE PublicIfAccessible(af)
    ELSE IF detected # None /\ confidence > 40 THEN
        IF InSeq(detected, af) THEN <<detected>> ELSE PublicIfAccessible(af)
    ELSE
        IF InSeq(uc.department, af) /\ uc.department # PUBLIC
        THEN <<uc.department>>
        ELSE IF Len(af) > 1 THEN Prefix(af, 2) ELSE af

\* determine_primary without the permission test of the high-confidence
\* branch: the detected department is searched whether or not the caller
\* may read it
determine_primary_unchecked(uc, detected, confidence) ==
    LET af == uc.accessible_folders IN
    IF detected # None /\ confidence > 70 THEN <<detected>>
    ELSE IF detected # None /\ confidence > 40 THEN
        IF InSeq(detected, af)
        THEN IF InSeq(PUBLIC, af) /\ detected # PUBLIC
             THEN <<detected, PUBLIC>> ELSE <<detected>>
        ELSE PublicIfAccessible(af)
    ELSE
        IF InSeq(uc.department, af) /\ uc.department # PUBLIC
        THEN <<uc.department>>
        ELSE IF Len(af) > 1 THEN Prefix(af, 2) ELSE af

\* the primary_folders chosen by _determine_strategy
determine_primary(uc, detected, confidence) ==
    LET af == uc.accessible_folders IN
    IF detected # None /\ confidence > 70 THEN
        IF InSeq(detected, af) THEN <<detected>> ELSE PublicIfAccessible(af)
    ELSE IF detected # None /\ confidence > 40 THEN
        IF InSeq(detected, af)
        THEN IF InSeq(PUBLIC, af) /\ detected # PUBLIC
             THEN <<detected, PUBLIC>> ELSE <<detected>>
        ELSE PublicIfAccessible(af)
    ELSE
        IF InSeq(uc.department, af) /\ uc.department # PUBLIC
        THEN <<uc.department>>
        ELSE IF Len(af) > 1 THEN Prefix(af, 2) ELSE af

\* determine_secondary that widens to the caller's other folders when the
\* detected department is not accessible
determine_secondary_widening(uc, detected, confidence) ==
    LET af == uc.accessible_folders
        primary == determine_primary(uc, detected, confidence) IN
    IF detected # None /\ confidence > 70 THEN
        IF InSeq(detected, af)
        THEN SelectSeq(af, LAMBDA f : f # detected)
        ELSE SelectSeq(af, LAMBDA f : ~InSeq(f, primary))
    ELSE IF detected # None /\ confidence > 40 THEN
        SelectSeq(af, LAMBDA f : ~InSeq(f, primary))
    ELSE
        IF InSeq(uc.department, af) /\ uc.department # PUBLIC
        THEN SelectSeq(af, LAMBDA f : f # uc.department)
        ELSE IF Len(af) > 2 THEN DropFirst(af, 2) ELSE <<>>

\* the secondary_folders chosen by _determine_strategy
determine_secondary(uc, detected, confidence) ==
    LET af == uc.accessible_folders
        primary == determine_primary(uc, detected, confidence) IN
    IF detected # None /\ confidence > 70 THEN
        IF InSeq(detected, af)
        THEN SelectSeq(af, LAMBDA f : f # detected) ELSE <<>>
    ELSE IF detected # None /\ confidence > 40 THEN
        IF InSeq(detected, af)
        THEN SelectSeq(af, LAMBDA f : ~InSeq(f, primary)) ELSE <<>>
    ELSE
        IF InSeq(uc.department, af) /\ uc.department # PUBLIC
        THEN SelectSeq(af, LAMBDA f : f # uc.department)
        ELSE IF Len(af) > 2 THEN DropFirst(af, 2) ELSE <<>>

\* _build_search_filters: the folders of the "department $in" filter, none
\* for the empty filter
build_search_filters(target_folders) == target_folders

\* a planner with hidden state: the number of results grows with the calls
\* the stage has served
determine_strategy_stateful(uc, ia, words) ==
    [primary_folders |-> determine_primary(uc, ia.detected_department, ia.confidence),
     secondary_folders |-> determine_secondary(uc, ia.detected_department, ia.confidence),
     search_filters |-> build_search_filters(
          determine_primary(uc, ia.detected_department, ia.confidence)
          \o determine_secondary(uc, ia.detected_department, ia.confidence)),
     max_results |-> calculate_max_results(words, ia.confidence)
                     + BagCardinality(planner_calls),
     relevance_threshold |-> calculate_relevance_threshold(ia.confidence),
     detected_department |-> ia.detected_department,
     has_permission |-> IF ia.detected_department # None
                        THEN InSeq(ia.detected_department, uc.accessible_folders)
                        ELSE TRUE]

\* _determine_strategy
determine_strategy(uc, ia, words) ==
    [primary_folders |-> determine_primary(uc, ia.detected_department, ia.confidence),
     secondary_folders |-> determine_secondary(uc, ia.detected_department, ia.confidence),
     search_filters |-> build_search_filters(
          determine_primary(uc, ia.detected_department, ia.confidence)
          \o determine_secondary(uc, ia.detected_department, ia.confidence)),
     max_results |-> calculate_max_results(words, ia.confidence),
     relevance_threshold |-> calculate_relevance_threshold(ia.confidence),
     detected_department |-> ia.detected_department,
     has_permission |-> IF ia.detected_department # None
                        THEN InSeq(ia.detected_department, uc.accessible_folders)
                        ELSE TRUE]

\* _create_fallback_strategy
create_fallback_strategy(uc) ==
    LET af == uc.accessible_folders IN
    [primary_folders |-> IF InSeq(PUBLIC, af) THEN af ELSE <<>>,
     secondary_folders |-> IF Len(af) > 1 THEN DropFirst(af, 1) ELSE <<>>,
     search_filters |-> af,
     max_results |-> 5,
     relevance_threshold |-> 30,
     detected_department |-> None,
     has_permission |-> TRUE]

(***************************************************************************)
(* UserContextChain and the identity store behind it.                      *)
(***************************************************************************)
\* the department table of the identity store, in query order
DbDepartments == <<"hr", "tech">>

\* User.has_permission: the permission codes of the user's role
has_permission(u, permission_code) == permission_code \in u.permissions

\* get_accessible_folders that trusts the department table to hold the
\* public folder
get_accessible_folders_table_only(u) ==
    IF has_permission(u, "document.view_all")
    THEN u.departments
    ELSE IF u.department # None /\ u.department # PUBLIC
         THEN <<PUBLIC, u.department>> ELSE <<PUBLIC>>

\* User.get_accessible_folders; u.departments is the department table as
\* the query of the user's session returns it
get_accessible_folders(u) ==
    IF has_permission(u, "document.view_all")
    THEN IF ~InSeq(PUBLIC, u.departments)
         THEN <<PUBLIC>> \o u.departments ELSE u.departments
    ELSE IF u.department # None /\ u.department # PUBLIC
         THEN <<PUBLIC, u.department>> ELSE <<PUBLIC>>

\* User.can_upload
can_upload(u) == has_permission(u, "document.upload")

\* UserContextChain._create_anonymous_context, and the dictionary
\* UserService.get_user_context returns for an unknown user id
create_anonymous_context ==
    [user_id |-> "anonymous", department |-> PUBLIC,
     accessible_folders |-> <<PUBLIC>>, can_upload |-> FALSE]

\* What the identity store answers: a row of the user table ("found"), no
\* row for the id ("absent"), or a lookup that fails ("raises")
StoredUsers ==
    {[kind |-> "found", department |-> d, permissions |-> p,
      departments |-> DbDepartments] :
        d \in {None, "hr"},
        p \in {{}, {"document.view_all"}, {"document.view_all", "document.upload"}}}
Lookups ==
    StoredUsers \cup
    {[kind |-> k, department |-> None, permissions |-> {},
      departments |-> DbDepartments] : k \in {"absent", "raises"}}

\* UserService.get_user_context followed by _dict_to_user_context, with the
\* except branch of UserContextChain._execute_chain
resolve_user_context(lookup) ==
    IF lookup.kind # "found" THEN create_anonymous_context
    ELSE [user_id |-> "u1",
          department |-> IF lookup.department # None
                         THEN lookup.department ELSE PUBLIC,
          accessible_folders |-> get_accessible_folders(lookup),
          can_upload |-> can_upload(lookup)]

(***************************************************************************)
(* QueryIntentChain: the classifier and the parsing of its output.         *)
(***************************************************************************)
DefaultIntent == [detected_department |-> None, confidence |-> 0,
                  keywords |-> {}]

\* What the classifier call can produce.  kind: "llm_fails" (invoke raises),
\* "no_llm" (no LLM or no department list), "no_json" (no braces in the
\* text), "bad_json" (json.loads raises), "bad_confidence" (float() raises)
\* and "valid".
ValidOutputs ==
    {[kind |-> "valid", detected_department |-> d, confidence |-> c, keywords |-> k] :
        d \in {"hr"}, c \in {35, 60, 90}, k \in {{}}}
    \cup {[kind |-> "valid", detected_department |-> d, confidence |-> c, keywords |-> k] :
        d \in {"tech"}, c \in {45, 75, 90}, k \in {{}}}
    \cup {[kind |-> "valid", detected_department |-> d, confidence |-> c, keywords |-> k] :
        d \in {"tech"}, c \in {90}, k \in {{"kw"}}}
    \cup {[kind |-> "valid", detected_department |-> d, confidence |-> c, keywords |-> k] :
        d \in {None}, c \in {0, 90}, k \in {{}}}
    \cup {[kind |-> "valid", detected_department |-> d, confidence |-> c, keywords |-> k] :
        d \in {PUBLIC}, c \in {90}, k \in {{}}}
ClassifierOutputs ==
    ValidOutputs \cup
    {[kind |-> x, detected_department |-> "hr", confidence |-> 90, keywords |-> {}] :
        x \in {"llm_fails", "no_llm", "no_json", "bad_json", "bad_confidence"}}

\* a parser that keeps the department it read when the confidence cannot
\* be converted
parse_ai_response_partial(out) ==
    IF out.kind \in {"valid", "bad_confidence"}
    THEN [detected_department |-> out.detected_department,
          confidence |-> out.confidence, keywords |-> out.keywords]
    ELSE DefaultIntent

\* _parse_ai_response, with the fallbacks of _execute_chain around it
parse_ai_response(out) ==
    IF out.kind = "valid"
    THEN [detected_department |-> out.detected_department,
          confidence |-> out.confidence, keywords |-> out.keywords]
    ELSE DefaultIntent

\* The classifier's raw text, token by token: braces, prose, and inside an
\* object the entries "detected_department": "hr", "confidence": 0.9,
\* "confidence": "0.45" (a string float() converts), "confidence": "high"
\* (float() raises ValueError) and "confidence": null (TypeError).
ResponseTokens == {"{", "}", "prose", "dept_hr", "conf_90", "conf_str_45",
                   "conf_word", "conf_null"}
EntryTokens == ResponseTokens \ {"{", "}", "prose"}

\* str.find: the 0-based index of the first occurrence, or -1
find(text, token) ==
    IF InSeq(token, text)
    THEN (CHOOSE i \in 1..Len(text) :
            text[i] = token /\ \A j \in 1..(i - 1) : text[j] # token) - 1
    ELSE -1

\* str.rfind: the 0-based index of the last occurrence, or -1
rfind(text, token) ==
    IF InSeq(token, text)
    THEN (CHOOSE i \in 1..Len(text) :
            text[i] = token /\ \A j \in (i + 1)..Len(text) : text[j] # token) - 1
    ELSE -1

\* json.loads on response[start_idx:end_idx]: an object is "{", entries, "}"
json_valid(json_str) ==
    /\ Len(json_str) >= 2
    /\ json_str[1] = "{"
    /\ json_str[Len(json_str)] = "}"
    /\ \A i \in 2..(Len(json_str) - 1) : json_str[i] \in EntryTokens

\* result.get(key): the value of the last entry with that key, or MISSING
json_get(json_str, entries) ==
    IF \E i \in 1..Len(json_str) : json_str[i] \in entries
    THEN json_str[CHOOSE i \in 1..Len(json_str) :
                    /\ json_str[i] \in entries
                    /\ \A j \in (i + 1)..Len(json_str) : json_str[j] \notin entries]
    ELSE MISSING

\* float(result.get("confidence", 0.0)) raises ValueError or TypeError
float_raises(entry) == entry \in {"conf_word", "conf_null"}

\* float(result.get("confidence", 0.0)), in hundredths, when it does not raise
to_float(entry) ==
    IF entry = "conf_90" THEN 90
    ELSE IF entry = "conf_str_45" THEN 45
    ELSE 0

\* the outcome of the classifier call behind raw: _execute_chain's test of
\* the LLM, llm.invoke, and the steps of _parse_ai_response
classify(raw) ==
    LET text == raw.text
        start_idx == find(text, "{")
        end_idx == rfind(text, "}") + 1
        json_str == SubSeq(text, start_idx + 1, end_idx)
        detected_dept == IF json_get(json_str, {"dept_hr"}) = MISSING
                         THEN None ELSE "hr"
        confidence_entry == json_get(json_str,
                         {"conf_90", "conf_str_45", "conf_word", "conf_null"})
        confidence == to_float(confidence_entry)
        kind == IF raw.invoke = "no_llm" THEN "no_llm"
                ELSE IF raw.invoke = "raises" THEN "llm_fails"
                ELSE IF ~(start_idx >= 0 /\ end_idx > start_idx) THEN "no_json"
                ELSE IF ~json_valid(json_str) THEN "bad_json"
                ELSE IF float_raises(confidence_entry) THEN "bad_confidence"
                ELSE "valid"
    IN [kind |-> kind,
        detected_department |-> IF kind \in {"valid", "bad_confidence"}
                                THEN detected_dept ELSE None,
        confidence |-> IF kind = "valid" THEN confidence ELSE 0,
        keywords |-> {}]

(***************************************************************************)
(* VectorManager and DocumentRetrievalChain.                               *)
(***************************************************************************)
\* The chunks the vector store may hand back: department metadata (or
\* MISSING), the raw distance, and the tokens the title contains.
Corpus ==
    {[document_id |-> "dA", department |-> "hr", distance |-> 20, title |-> {}],
     [document_id |-> "dB", department |-> PUBLIC, distance |-> 140, title |-> {"kw"}],
     [document_id |-> "dC", department |-> MISSING, distance |-> 40, title |-> {}],
     [document_id |-> "dD", department |-> "tech", distance |-> 164, title |-> {}]}

\* result lists of similarity_search_with_score: at most k chunks, by
\* ascending distance
RankedListsWithin(k, bound) ==
    {s \in UNION {[1..n -> Corpus] : n \in 0..Min(k, bound)} :
        \A i \in 1..Len(s) : \A j \in 1..Len(s) :
            i < j => s[i].distance < s[j].distance}

RankedLists(k) == RankedListsWithin(k, MaxReturned)

\* the distance-to-score conversion of VectorManager.search_documents
similarity_score(distance) == Max(0, 100 - (distance \div 2))

\* search_documents without its except branch: what the similarity search
\* had found is returned although the search raised
search_documents_unguarded(store, returned) ==
    IF store = "no_store" THEN [raised |-> TRUE, docs |-> <<>>]
    ELSE [raised |-> FALSE,
          docs |-> [i \in 1..Len(returned) |->
            [document_id |-> returned[i].document_id,
             department |-> returned[i].department,
             title |-> returned[i].title,
             score |-> similarity_score(returned[i].distance)]]]

\* VectorManager.search_documents: store is "ok", "search_raises" (the
\* similarity search raises, whatever it had found is dropped) or
\* "no_store" (vector_store is None: the method raises)
search_documents(store, returned) ==
    IF store = "no_store" THEN [raised |-> TRUE, docs |-> <<>>]
    ELSE IF store = "search_raises" THEN [raised |-> FALSE, docs |-> <<>>]
    ELSE [raised |-> FALSE,
          docs |-> [i \in 1..Len(returned) |->
            [document_id |-> returned[i].document_id,
             department |-> returned[i].department,
             title |-> returned[i].title,
             score |-> similarity_score(returned[i].distance)]]]

\* DocumentRetrievalChain._search_with_filters
search_with_filters(store, returned) ==
    LET results == search_documents(store, returned) IN
    IF results.raised THEN <<>> ELSE results.docs

\* DocumentRetrievalChain._check_document_permission
check_document_permission(doc, uc) ==
    LET doc_department == IF doc.department = MISSING THEN PUBLIC
                          ELSE doc.department
    IN InSeq(doc_department, uc.accessible_folders)

\* the key sorted() uses in _filter_and_rank_documents: getattr(x, 'score',
\* 0.0); the documents carry their score in metadata, not as an attribute
sort_key(doc) == 0

\* sorted(..., reverse=True) is stable: with equal keys the order is kept
RECURSIVE sorted_desc(_)
sorted_desc(docs) ==
    IF Len(docs) <= 1 THEN docs
    ELSE LET best == CHOOSE i \in 1..Len(docs) :
                        /\ \A j \in 1..Len(docs) : sort_key(docs[j]) <= sort_key(docs[i])
                        /\ \A j \in 1..(i - 1) : sort_key(docs[j]) < sort_key(docs[i])
             rest == [k \in 1..(Len(docs) - 1) |->
                        IF k < best THEN docs[k] ELSE docs[k + 1]]
         IN <<docs[best]>> \o sorted_desc(rest)

\* DocumentRetrievalChain._filter_and_rank_documents
filter_and_rank_documents(docs, strategy, uc) ==
    LET filtered_docs == SelectSeq(docs,
            LAMBDA d : d.score >= strategy.relevance_threshold)
        permission_filtered == SelectSeq(filtered_docs,
            LAMBDA d : check_document_permission(d, uc))
    IN Prefix(sorted_desc(permission_filtered), strategy.max_results)

\* DocumentResult.from_langchain_document
from_langchain_document(doc) ==
    [document_id |-> doc.document_id,
     department |-> IF doc.department = MISSING THEN "" ELSE doc.department,
     title |-> doc.title,
     score |-> doc.score]

(***************************************************************************)
(* IntelligentMultiDepartmentRouter: the result of route_query.            *)
(***************************************************************************)
\* _build_query_result: the source type follows from the documents alone
build_query_result(docs) ==
    [source_type |-> IF Len(docs) > 0 THEN "document_based" ELSE "general_knowledge",
     answer |-> <<>>]

\* _create_error_result: the answer embeds error_msg between a fixed
\* apology and a fixed retry hint
create_error_result(error_text) ==
    [source_type |-> "error",
     answer |-> <<"apology">> \o error_text \o <<"retry_hint">>]

\* the message execute_pipeline and route_query build around the text of
\* the exception a chain raised
pipeline_error_msg(chain_name, exception_text) ==
    <<"route_failed", "pipeline_failed", chain_name, exception_text>>

Contains(text, part) ==
    \E i \in 0..(Len(text) - Len(part)) :
        \A j \in 1..Len(part) : text[i + j] = part[j]

(***************************************************************************)
(* The streaming service: which documents reach answer generation.         *)
(***************************************************************************)
\* names the stream filter treats as "not a company department"
GenericDepartments == {"general", "other", PUBLIC}

\* the per-document test of _filter_relevant_documents_for_stream
document_is_relevant(doc, detected_dept, keywords) ==
    \/ doc.department = detected_dept
    \/ detected_dept \in doc.title
    \/ keywords \cap doc.title # {}

\* the filter without its null-department rule (AnswerGenerationChain's
\* _filter_relevant_documents returns every document in that case)
filter_relevant_documents_keep_on_null(docs, ia, user_role) ==
    IF user_role = "super_admin" THEN docs
    ELSE IF ia.detected_department = None THEN docs
    ELSE IF ia.detected_department \in GenericDepartments THEN <<>>
    ELSE IF ia.confidence < 30 THEN <<>>
    ELSE SelectSeq(docs, LAMBDA d :
            document_is_relevant(d, ia.detected_department, ia.keywords))

\* _filter_relevant_documents_for_stream
filter_relevant_documents_for_stream(docs, ia, user_role) ==
    IF user_role = "super_admin" THEN docs
    ELSE IF ia.detected_department = None THEN <<>>
    ELSE IF ia.detected_department \in GenericDepartments THEN <<>>
    ELSE IF ia.confidence < 30 THEN <<>>
    ELSE SelectSeq(docs, LAMBDA d :
            document_is_relevant(d, ia.detected_department, ia.keywords))

\* the permission-denied test without has_permission: any detected
\* department counts as a permission problem
is_permission_problem_any_department(ia, strategy) ==
    ia.detected_department # None

\* the test that selects the permission-denied branch of
\* service_query_knowledge_stream once no relevant document is left
is_permission_problem(ia, strategy) ==
    ia.detected_department # None /\ ~strategy.has_permission

(***************************************************************************)
(* ChatHistoryManager.                                                     *)
(***************************************************************************)
\* a trim that keeps the oldest messages instead of the latest
trim_history_keep_oldest(messages) ==
    IF Len(messages) > MaxMessages
    THEN SubSeq(messages, 1, MaxMessages)
    ELSE messages

\* _trim_history
trim_history(messages) ==
    IF Len(messages) > MaxMessages
    THEN SubSeq(messages, Len(messages) - MaxMessages + 1, Len(messages))
    ELSE messages

\* get_history that installs a new history on every reference
get_history_always_new(hs, session_id) ==
    [s \in DOMAIN hs \cup {session_id} |->
        IF s = session_id THEN <<>> ELSE hs[s]]

\* get_history: creates the session's history on first reference
get_history(hs, session_id) ==
    IF session_id \in DOMAIN hs THEN hs
    ELSE [s \in DOMAIN hs \cup {session_id} |->
            IF s = session_id THEN <<>> ELSE hs[s]]

\* add_user_message / add_ai_message: append, then trim
add_message(hs, session_id, role, content) ==
    LET h == get_history(hs, session_id) IN
    [h EXCEPT ![session_id] =
        trim_history(Append(h[session_id], [role |-> role, content |-> content]))]

(***************************************************************************)
(* Tuples of the state variables, requests, and the initial state.         *)
(***************************************************************************)
vars == <<pc, request, vector_manager, user_context, intent_analysis,
          retrieval_strategy, strategy_origin, documents, search_calls,
          retrieved, execution_results, pipeline_success, error_msg,
          query_result, docs_to_use, mode, stream_state, llm_calls,
          full_answer, events, histories, clients, append_log,
          planner_calls, identity, llm_response, chat_messages, chat_writers,
          store_chunks, document_cache>>

chat_vars == <<chat_messages, chat_writers>>
kb_vars == <<store_chunks, document_cache>>
store_vars == <<identity, llm_response, chat_vars, kb_vars>>

\* no identity looked up yet
NoIdentity == [kind |-> None, department |-> None, permissions |-> {},
               departments |-> <<>>]

\* no classifier call followed
NoResponse == [invoke |-> None, text |-> <<>>]

\* request threads that write to one chat session
Writers == {"w1", "w2"}
IdleWriter == [state |-> "idle", message_count |-> 0, role |-> None]

\* an empty chat session, an empty knowledge base, nobody looked up
StoresNew ==
    /\ identity = NoIdentity
    /\ llm_response = NoResponse
    /\ chat_messages = <<>>
    /\ chat_writers = [w \in Writers |-> IdleWriter]
    /\ store_chunks = {}
    /\ document_cache = <<>>

pipeline_vars == <<user_context, intent_analysis, retrieval_strategy,
                   strategy_origin, documents, search_calls, retrieved,
                   execution_results, pipeline_success, error_msg>>
answer_vars == <<docs_to_use, mode, stream_state, llm_calls, full_answer>>
session_vars == <<clients, append_log>>
query_vars == <<pc, request, vector_manager, pipeline_vars, query_result,
                answer_vars, events>>

\* the order set by IntelligentMultiDepartmentRouter._initialize_chains
execution_order ==
    <<"user_context", "query_intent", "retrieval_strategy", "document_retrieval">>

\* question_words is len(question.split()): 0 for a blank question.
\* service_query_knowledge reads neither the history nor the role.
Requests ==
    [path : {"stream"}, question_words : {0, 3, 12}, user_id : {None, "u1"},
     session_id : {None, "s1"}, user_role : {"employee", "super_admin"}]
    \cup
    [path : {"sync"}, question_words : {0, 3, 12}, user_id : {None, "u1"},
     session_id : {None}, user_role : {"employee"}]

NoRequest == [path |-> None, question_words |-> 0, user_id |-> None,
              session_id |-> None, user_role |-> None]
NoUserContext == [user_id |-> None, department |-> None,
                  accessible_folders |-> <<>>, can_upload |-> FALSE]
NoStrategy == [primary_folders |-> <<>>, secondary_folders |-> <<>>,
               search_filters |-> <<>>,
               max_results |-> 0, relevance_threshold |-> 0,
               detected_department |-> None, has_permission |-> TRUE]
NoResult == [source_type |-> None, answer |-> <<>>]

\* the streaming requests the history specifications follow
Clients == {"c1", "c2"}
IdleClient == [state |-> "idle", session_id |-> None, mode |-> None,
               sent |-> <<>>, full_answer |-> <<>>, after |-> {}]

\* no query is being served: the pipeline data and the answer are unset
ServiceIdle ==
    /\ pc = "idle"
    /\ request = NoRequest
    /\ user_context = NoUserContext
    /\ intent_analysis = DefaultIntent
    /\ retrieval_strategy = NoStrategy
    /\ strategy_origin = None
    /\ documents = <<>>
    /\ search_calls = <<>>
    /\ retrieved = <<>>
    /\ execution_results = <<>>
    /\ pipeline_success = "pending"
    /\ error_msg = <<>>
    /\ query_result = NoResult
    /\ docs_to_use = <<>>
    /\ mode = None
    /\ stream_state = "not_started"
    /\ llm_calls = 0
    /\ full_answer = <<>>
    /\ events = <<>>

\* a new ChatHistoryManager: no session yet, no request in flight
HistoryManagerNew ==
    /\ histories = <<>>
    /\ clients = [c \in Clients |-> IdleClient]
    /\ append_log = <<>>

Init ==
    /\ ServiceIdle
    /\ vector_manager \in {"ok", "unavailable"}
    /\ HistoryManagerNew
    /\ planner_calls = EmptyBag
    /\ StoresNew

(***************************************************************************)
(* The services up to the call of route_query.                             *)
(***************************************************************************)
\* service_query_knowledge_stream up to route_query (the history lookup and
\* the two status events), or service_query_knowledge up to route_query
Receive ==
    /\ pc = "idle"
    /\ \E req \in Requests :
        /\ request' = req
        /\ IF req.path = "stream"
           THEN /\ histories' = IF req.session_id # None
                                THEN get_history(histories, req.session_id)
                                ELSE histories
                /\ events' = <<"preprocessing", "intelligent_routing">>
           ELSE UNCHANGED <<histories, events>>
    /\ pc' = "user_context"
    /\ UNCHANGED <<vector_manager, pipeline_vars, query_result, answer_vars>>
    /\ UNCHANGED <<session_vars, planner_calls, store_vars>>

(***************************************************************************)
(* ChainManager.execute_pipeline, one chain at a time.                     *)
(***************************************************************************)
\* an execute_pipeline that records the failure and goes on to the next chain
ChainFails_goes_on(chain_name, exception_text) ==
    /\ execution_results' = Append(execution_results,
            [chain |-> chain_name, success |-> FALSE, degraded |-> FALSE])
    /\ pipeline_success' = pipeline_success
    /\ error_msg' = error_msg
    /\ pc' = IF chain_name = "user_context" THEN "query_intent"
             ELSE "retrieval_strategy"

\* a chain returned success = False: execute_pipeline raises and reports
\* success = False with the chains executed so far
ChainFails(chain_name, exception_text) ==
    /\ execution_results' = Append(execution_results,
            [chain |-> chain_name, success |-> FALSE, degraded |-> FALSE])
    /\ pipeline_success' = "no"
    /\ error_msg' = pipeline_error_msg(chain_name, exception_text)
    /\ pc' = "pipeline_end"

\* a chain returned success = True; degraded tells that the except branch
\* of its _execute_chain produced the data (the data carries an "error" key)
ChainSucceeds(chain_name, degraded, next_pc) ==
    /\ execution_results' = Append(execution_results,
            [chain |-> chain_name, success |-> TRUE, degraded |-> degraded])
    /\ pc' = next_pc

\* a validation that accepts an empty user id
user_context_valid_lenient(req) == TRUE

\* UserContextChain._validate_inputs
user_context_valid(req) == req.user_id # None

\* QueryIntentChain._validate_inputs
query_intent_valid(req) == req.question_words # 0

\* UserContextChain: _validate_inputs, then _execute_chain; lookups is what
\* the identity store can answer
UserContextLookup(lookups) ==
    /\ pc = "user_context"
    /\ IF ~user_context_valid(request)
       THEN /\ ChainFails("user_context", "user_id_empty")
            /\ UNCHANGED <<user_context, identity>>
       ELSE /\ \E lookup \in lookups :
                /\ identity' = lookup
                /\ user_context' = resolve_user_context(lookup)
                /\ ChainSucceeds("user_context", lookup.kind = "raises",
                                 "query_intent")
            /\ UNCHANGED <<pipeline_success, error_msg>>
    /\ UNCHANGED <<request, vector_manager, intent_analysis, retrieval_strategy,
                   strategy_origin, documents, search_calls, retrieved,
                   query_result, answer_vars, events, histories>>
    /\ UNCHANGED <<session_vars, planner_calls, llm_response, chat_vars, kb_vars>>

UserContextStage == UserContextLookup(Lookups)

\* QueryIntentChain: _validate_inputs, then _execute_chain; calls is what
\* the classifier call can do: [raw, out] with out the outcome of raw
QueryIntentCall(calls) ==
    /\ pc = "query_intent"
    /\ IF ~query_intent_valid(request)
       THEN /\ ChainFails("query_intent", "query_empty")
            /\ UNCHANGED <<intent_analysis, llm_response>>
       ELSE /\ \E call \in calls :
                /\ llm_response' = call.raw
                /\ intent_analysis' = parse_ai_response(call.out)
                /\ ChainSucceeds("query_intent", call.out.kind = "llm_fails",
                                 "retrieval_strategy")
            /\ UNCHANGED <<pipeline_success, error_msg>>
    /\ UNCHANGED <<request, vector_manager, user_context, retrieval_strategy,
                   strategy_origin, documents, search_calls, retrieved,
                   query_result, answer_vars, events, histories>>
    /\ UNCHANGED <<session_vars, planner_calls, identity, chat_vars, kb_vars>>

\* the classifier outcomes, whatever text stood behind them
OutcomesOnly == {[raw |-> NoResponse, out |-> out] : out \in ClassifierOutputs}

QueryIntentStage == QueryIntentCall(OutcomesOnly)

\* RetrievalStrategyChain._execute_chain: _determine_strategy, or the
\* fallback strategy when something inside the try block raises.
\* planner_calls keeps the inputs as they were before and after the call, and
\* the strategy returned.
RetrievalStrategyStage ==
    /\ pc = "retrieval_strategy"
    /\ \E raises \in BOOLEAN :
        /\ retrieval_strategy' =
              IF raises THEN create_fallback_strategy(user_context)
              ELSE determine_strategy(user_context, intent_analysis,
                                      request.question_words)
        /\ strategy_origin' = IF raises THEN "fallback" ELSE "determined"
        /\ ChainSucceeds("retrieval_strategy", raises, "document_retrieval")
    /\ UNCHANGED <<request, vector_manager, user_context, intent_analysis,
                   documents, search_calls, retrieved, pipeline_success,
                   error_msg, query_result, answer_vars, events, histories>>
    /\ UNCHANGED <<session_vars, store_vars>>
    /\ planner_calls' = planner_calls (+) SetToBag({
          [user_context |-> user_context,
           intent_analysis |-> intent_analysis,
           words |-> request.question_words,
           origin |-> strategy_origin',
           strategy |-> retrieval_strategy',
           user_context_after |-> user_context',
           intent_analysis_after |-> intent_analysis']})

\* one call of _search_with_filters as _execute_layered_retrieval logs it
SearchCall(tier, k, outcome, docs) ==
    [tier |-> tier, k |-> k, outcome |-> outcome, n |-> Len(docs),
     ids |-> [i \in 1..Len(docs) |-> docs[i].document_id]]

\* a second tier that is searched whenever there are secondary folders
search_secondary_always(strategy, all_documents) ==
    Len(strategy.secondary_folders) > 0

\* the condition of the second tier in _execute_layered_retrieval
search_secondary_tier(strategy, all_documents) ==
    /\ Len(all_documents) < strategy.max_results
    /\ Len(strategy.secondary_folders) > 0

\* DocumentRetrievalChain._execute_chain: layered retrieval (primary
\* folders, then secondary folders for the remaining slots), the relevance
\* and permission filter, and the conversion to DocumentResult
DocumentRetrieval(bound) ==
    /\ pc = "document_retrieval"
    /\ IF vector_manager = "unavailable"
       THEN /\ documents' = <<>>
            /\ UNCHANGED <<search_calls, retrieved>>
       ELSE LET strategy == retrieval_strategy
                search_primary == Len(strategy.primary_folders) > 0
            IN \E o1 \in {"ok", "search_raises"},
                  r1 \in RankedListsWithin(strategy.max_results, bound) :
               /\ ~search_primary => (o1 = "ok" /\ r1 = <<>>)
               /\ LET primary_docs == IF search_primary
                                      THEN search_with_filters(o1, r1) ELSE <<>>
                      search_secondary ==
                          search_secondary_tier(strategy, primary_docs)
                      remaining_slots == strategy.max_results - Len(primary_docs)
                  IN \E o2 \in {"ok", "search_raises"},
                        r2 \in RankedListsWithin(Max(remaining_slots, 0), bound) :
                     /\ ~search_secondary => (o2 = "ok" /\ r2 = <<>>)
                     /\ LET secondary_docs == IF search_secondary
                                              THEN search_with_filters(o2, r2) ELSE <<>>
                            all_documents == primary_docs \o secondary_docs
                            filtered == filter_and_rank_documents(
                                            all_documents, strategy, user_context)
                        IN /\ retrieved' = all_documents
                           /\ documents' = [i \in 1..Len(filtered) |->
                                              from_langchain_document(filtered[i])]
                           /\ search_calls' =
                                (IF search_primary
                                 THEN <<SearchCall("primary", strategy.max_results, o1, primary_docs)>>
                                 ELSE <<>>) \o
                                (IF search_secondary
                                 THEN <<SearchCall("secondary", remaining_slots, o2, secondary_docs)>>
                                 ELSE <<>>)
    /\ ChainSucceeds("document_retrieval", FALSE, "pipeline_end")
    /\ pipeline_success' = "yes"
    /\ UNCHANGED <<request, vector_manager, user_context, intent_analysis,
                   retrieval_strategy, strategy_origin, error_msg,
                   query_result, answer_vars, events, histories>>
    /\ UNCHANGED <<session_vars, planner_calls, store_vars>>

DocumentRetrievalStage == DocumentRetrieval(MaxReturned)

\* route_query after execute_pipeline returned: _build_query_result, or
\* _create_error_result when the pipeline reported success = False
RouteQueryReturn ==
    /\ pc = "pipeline_end"
    /\ query_result' = IF pipeline_success = "yes"
                       THEN build_query_result(documents)
                       ELSE create_error_result(error_msg)
    /\ pc' = "routed"
    /\ UNCHANGED <<request, vector_manager, pipeline_vars, answer_vars,
                   events, histories>>
    /\ UNCHANGED <<session_vars, planner_calls, store_vars>>

(***************************************************************************)
(* The services after route_query.                                         *)
(***************************************************************************)
\* service_query_knowledge: the response carries query_result.answer; no
\* answer is generated on this path
SyncRespond ==
    /\ pc = "routed"
    /\ request.path = "sync"
    /\ full_answer' = query_result.answer
    /\ mode' = IF query_result.source_type = "error" THEN "error"
               ELSE "not_generated"
    /\ pc' = "done"
    /\ UNCHANGED <<request, vector_manager, pipeline_vars, query_result,
                   docs_to_use, stream_state, llm_calls, events, histories>>
    /\ UNCHANGED <<session_vars, planner_calls, store_vars>>

\* a service that yields the complete event twice
emit_complete_twice(evts) == evts \o <<"complete", "complete">>

\* the complete event the service yields before it returns
emit_complete(evts) == Append(evts, "complete")

\* service_query_knowledge_stream from the llm_generation status event to
\* the call of _generate_streaming_response: the intent filter, and the
\* permission-denied answer with its complete event
StreamPrepare ==
    /\ pc = "routed"
    /\ request.path = "stream"
    /\ LET use_documents == query_result.source_type = "document_based"
                            /\ Len(documents) > 0
           relevant_docs == filter_relevant_documents_for_stream(
                                documents, intent_analysis, request.user_role)
       IN IF /\ use_documents
             /\ Len(relevant_docs) = 0
             /\ is_permission_problem(intent_analysis, retrieval_strategy)
          THEN /\ mode' = "permission_denied"
               /\ full_answer' = <<"permission_denied_template",
                                   intent_analysis.detected_department>>
               /\ events' = emit_complete(events \o <<"llm_generation", "content">>)
               /\ pc' = "done"
               /\ UNCHANGED docs_to_use
          ELSE /\ docs_to_use' = IF use_documents THEN relevant_docs ELSE <<>>
               /\ events' = Append(events, "llm_generation")
               /\ pc' = "generating"
               /\ UNCHANGED <<mode, full_answer>>
    /\ UNCHANGED <<request, vector_manager, pipeline_vars, query_result,
                   stream_state, llm_calls, histories>>
    /\ UNCHANGED <<session_vars, planner_calls, store_vars>>

\* _generate_streaming_response up to the first chunk of the LLM: without
\* an LLM one apology chunk; with documents the grounded prompt; without
\* documents the general-knowledge marker chunk, then the prompt; then
\* agent.llm.astream is called
GenerationStart ==
    /\ pc = "generating"
    /\ stream_state = "not_started"
    /\ mode' = IF Len(docs_to_use) > 0 THEN "grounded" ELSE "general_knowledge"
    /\ \E llm_available \in BOOLEAN :
        IF ~llm_available
        THEN /\ full_answer' = <<"llm_unavailable_apology">>
             /\ events' = Append(events, "content")
             /\ stream_state' = "no_llm"
             /\ UNCHANGED llm_calls
        ELSE /\ llm_calls' = llm_calls + 1
             /\ stream_state' = "running"
             /\ IF Len(docs_to_use) > 0
                THEN UNCHANGED <<full_answer, events>>
                ELSE /\ full_answer' = <<"general_knowledge_marker">>
                     /\ events' = Append(events, "content")
    /\ UNCHANGED <<pc, request, vector_manager, pipeline_vars, query_result,
                   docs_to_use, histories>>
    /\ UNCHANGED <<session_vars, planner_calls, store_vars>>

ChunkCount == Cardinality({i \in 1..Len(full_answer) : full_answer[i] = "chunk"})

\* the LLM stream yields a chunk, which the service forwards
LLMChunk ==
    /\ pc = "generating"
    /\ stream_state = "running"
    /\ ChunkCount < MaxChunks
    /\ full_answer' = Append(full_answer, "chunk")
    /\ events' = Append(events, "content")
    /\ UNCHANGED <<pc, request, vector_manager, pipeline_vars, query_result,
                   docs_to_use, mode, stream_state, llm_calls, histories>>
    /\ UNCHANGED <<session_vars, planner_calls, store_vars>>

\* the LLM stream raises: _generate_streaming_response catches it, yields an
\* apology that quotes the error, and ends
LLMRaises ==
    /\ pc = "generating"
    /\ stream_state = "running"
    /\ full_answer' = full_answer \o <<"generation_failed_apology", "llm_error_text">>
    /\ events' = Append(events, "content")
    /\ stream_state' = "raised"
    /\ UNCHANGED <<pc, request, vector_manager, pipeline_vars, query_result,
                   docs_to_use, mode, llm_calls, histories>>
    /\ UNCHANGED <<session_vars, planner_calls, store_vars>>

\* the async-for over _generate_streaming_response ends (the LLM stream is
\* exhausted, or the generator returned after an apology): the history
\* update and the complete event
StreamComplete ==
    /\ pc = "generating"
    /\ stream_state \in {"running", "raised", "no_llm"}
    /\ stream_state' = IF stream_state = "running" THEN "exhausted" ELSE stream_state
    /\ histories' =
          IF request.session_id # None
          THEN add_message(
                 add_message(histories, request.session_id, "user", <<"question">>),
                 request.session_id, "ai", full_answer)
          ELSE histories
    /\ events' = emit_complete(events)
    /\ pc' = "done"
    /\ UNCHANGED <<request, vector_manager, pipeline_vars, query_result,
                   docs_to_use, mode, llm_calls, full_answer>>
    /\ UNCHANGED <<session_vars, planner_calls, store_vars>>

\* the caller disconnects while the service is suspended at a content
\* event: the generator is closed and nothing after the yield runs
Disconnect ==
    /\ pc = "generating"
    /\ stream_state \in {"running", "raised", "no_llm"}
    /\ events[Len(events)] = "content"
    /\ stream_state' = "cancelled"
    /\ pc' = "done"
    /\ UNCHANGED <<request, vector_manager, pipeline_vars, query_result,
                   docs_to_use, mode, llm_calls, full_answer, events, histories>>
    /\ UNCHANGED <<session_vars, planner_calls, store_vars>>

Next ==
    \/ Receive
    \/ UserContextStage
    \/ QueryIntentStage
    \/ RetrievalStrategyStage
    \/ DocumentRetrievalStage
    \/ RouteQueryReturn
    \/ SyncRespond
    \/ StreamPrepare
    \/ GenerationStart
    \/ LLMChunk
    \/ LLMRaises
    \/ StreamComplete
    \/ Disconnect

Spec == Init /\ [][Next]_vars

(***************************************************************************)
(* Concurrent streaming requests and the shared ChatHistoryManager.        *)
(* service_query_knowledge_stream is an async generator: it is suspended   *)
(* at every yield, and between two yields it runs without interruption.    *)
(* Each client is one request; what the pipeline and the answer generator  *)
(* decide for it is chosen freely, what it does to the history is kept.    *)
(***************************************************************************)
ClientSessions == {None, "s1", "s2"}

\* request.question of the client's request
Question(c) == <<"question", c>>

\* a chunk of the client's LLM stream
ChunkOf(c) == <<"chunk", c>>

\* an accumulation that keeps only the latest chunk
accumulate_last_only(answer, chunk) == chunk

\* full_answer += chunk
accumulate(answer, chunk) == answer \o chunk

ChunksSent(c) ==
    Cardinality({i \in 1..Len(clients[c].sent) : clients[c].sent[i] = "chunk"})

\* the history lookup of the service, its two status events and route_query
ClientBegin(c) ==
    /\ clients[c].state = "idle"
    /\ \E sid \in ClientSessions :
        /\ histories' = IF sid # None THEN get_history(histories, sid)
                        ELSE histories
        /\ clients' = [clients EXCEPT ![c] =
              [@ EXCEPT !.state = "routing", !.session_id = sid,
                        !.after = {d \in Clients : clients[d].state = "done"}]]
    /\ UNCHANGED <<query_vars, append_log, planner_calls, store_vars>>

\* from the return of route_query to the first content event: the
\* permission-denied answer (content and complete events, then return), or
\* the start of generation, with the marker chunk in general-knowledge mode
ClientRoute(c) ==
    /\ clients[c].state = "routing"
    /\ \E m \in {"grounded", "general_knowledge", "permission_denied"} :
        clients' = [clients EXCEPT ![c] =
            IF m = "permission_denied"
            THEN [@ EXCEPT !.state = "denied", !.mode = m,
                           !.sent = <<"permission_denied_template">>,
                           !.full_answer = <<"permission_denied_template">>]
            ELSE IF m = "general_knowledge"
            THEN [@ EXCEPT !.state = "generating", !.mode = m,
                           !.sent = <<"general_knowledge_marker">>,
                           !.full_answer = accumulate(<<>>, <<"general_knowledge_marker">>)]
            ELSE [@ EXCEPT !.state = "generating", !.mode = m]]
    /\ UNCHANGED <<histories, query_vars, append_log, planner_calls, store_vars>>

\* one chunk of the LLM stream: accumulated, then yielded as a content event
ClientChunk(c) ==
    /\ clients[c].state = "generating"
    /\ ChunksSent(c) < MaxChunks
    /\ clients' = [clients EXCEPT ![c] =
          [@ EXCEPT !.full_answer = accumulate(@, ChunkOf(c)),
                    !.sent = @ \o ChunkOf(c)]]
    /\ UNCHANGED <<histories, query_vars, append_log, planner_calls, store_vars>>

\* the LLM stream raises: the generator yields its apology and ends
ClientLLMRaises(c) ==
    /\ clients[c].state = "generating"
    /\ clients' = [clients EXCEPT ![c] =
          [@ EXCEPT !.state = "raised",
                    !.full_answer = accumulate(@, <<"generation_failed_apology">>),
                    !.sent = @ \o <<"generation_failed_apology">>]]
    /\ UNCHANGED <<histories, query_vars, append_log, planner_calls, store_vars>>

\* the generator is exhausted: add_user_message and add_ai_message, with no
\* yield between them, then the complete event
ClientComplete(c) ==
    /\ clients[c].state \in {"generating", "raised"}
    /\ histories' =
          IF clients[c].session_id # None
          THEN add_message(
                 add_message(histories, clients[c].session_id, "user", Question(c)),
                 clients[c].session_id, "ai", clients[c].full_answer)
          ELSE histories
    /\ clients' = [clients EXCEPT ![c] = [@ EXCEPT !.state = "done"]]
    /\ UNCHANGED <<query_vars, append_log, planner_calls, store_vars>>

\* the caller disconnects while the request is suspended at a yield
ClientDisconnect(c) ==
    /\ clients[c].state \in {"routing", "generating", "raised"}
    /\ clients' = [clients EXCEPT ![c] = [@ EXCEPT !.state = "cancelled"]]
    /\ UNCHANGED <<histories, query_vars, append_log, planner_calls, store_vars>>

SessionInit ==
    /\ ServiceIdle
    /\ vector_manager = "ok"
    /\ HistoryManagerNew
    /\ planner_calls = EmptyBag
    /\ StoresNew

SessionNext ==
    \/ \E c \in Clients : ClientBegin(c)
    \/ \E c \in Clients : ClientRoute(c)
    \/ \E c \in Clients : ClientChunk(c)
    \/ \E c \in Clients : ClientLLMRaises(c)
    \/ \E c \in Clients : ClientComplete(c)
    \/ \E c \in Clients : ClientDisconnect(c)

SessionSpec == SessionInit /\ [][SessionNext]_vars

(***************************************************************************)
(* The operations of ChatHistoryManager, called in any order.              *)
(* append_log[s] holds what was put into session s since it was last       *)
(* empty, and by which way: "manager" (add_user_message, add_ai_message)   *)
(* or "db" (sync_history_to_manager).                                      *)
(***************************************************************************)
HistorySessions == {"s1"}

\* appends followed per session, and rows of a stored conversation
MaxAppends == MaxMessages + 2
MaxStored == MaxMessages + 1

\* a text of k words: the k-th message put into a session
Text(k) == [i \in 1..k |-> "w"]

\* the roles of the rows the database may hold for a session: user and
\* assistant rows alternate, and one row (row k, none for k = 0) may carry
\* another role
StoredLists ==
    {[i \in 1..n |-> IF i = k THEN "system"
                     ELSE IF i % 2 = 1 THEN "user" ELSE "assistant"] :
        n \in 0..MaxStored, k \in 0..MaxStored}

\* load_history_from_db: user rows become user messages, bot and assistant
\* rows AI messages, other rows are skipped; the text of row i is Text(i)
load_history_from_db(db_roles) ==
    LET rows == [i \in 1..Len(db_roles) |-> [role |-> db_roles[i], text |-> Text(i)]]
        kept == SelectSeq(rows, LAMBDA r : r.role \in {"user", "bot", "assistant"})
    IN [i \in 1..Len(kept) |->
          [role |-> IF kept[i].role = "user" THEN "user" ELSE "ai",
           content |-> kept[i].text]]

LogOf(s) == IF s \in DOMAIN append_log THEN append_log[s] ELSE <<>>

SetLog(s, log) ==
    [t \in DOMAIN append_log \cup {s} |-> IF t = s THEN log ELSE append_log[t]]

\* ChatHistoryManager.get_history
GetHistory(s) ==
    /\ histories' = get_history(histories, s)
    /\ append_log' = SetLog(s, LogOf(s))
    /\ UNCHANGED <<query_vars, clients, planner_calls, store_vars>>

\* add_user_message / add_ai_message of the manager
AddMessage(s, role) ==
    /\ Len(LogOf(s)) < MaxAppends
    /\ LET content == Text(Len(LogOf(s)) + 1) IN
       /\ histories' = add_message(histories, s, role, content)
       /\ append_log' = SetLog(s, Append(LogOf(s),
             [message |-> [role |-> role, content |-> content], via |-> "manager"]))
    /\ UNCHANGED <<query_vars, clients, planner_calls, store_vars>>

AddUserMessage(s) == AddMessage(s, "user")

AddAiMessage(s) == AddMessage(s, "ai")

\* ChatHistoryManager.clear_history
ClearHistory(s) ==
    /\ s \in DOMAIN histories
    /\ histories' = [histories EXCEPT ![s] = <<>>]
    /\ append_log' = SetLog(s, <<>>)
    /\ UNCHANGED <<query_vars, clients, planner_calls, store_vars>>

\* ChatHistoryManager.delete_session
DeleteSession(s) ==
    /\ s \in DOMAIN histories
    /\ histories' = [t \in DOMAIN histories \ {s} |-> histories[t]]
    /\ append_log' = [t \in DOMAIN append_log \ {s} |-> append_log[t]]
    /\ UNCHANGED <<query_vars, clients, planner_calls, store_vars>>

\* sync_history_to_manager: the loaded history replaces the session's
SyncHistoryToManager(s, db_roles) ==
    /\ LET history == load_history_from_db(db_roles) IN
       /\ histories' = [t \in DOMAIN histories \cup {s} |->
                           IF t = s THEN history ELSE histories[t]]
       /\ append_log' = SetLog(s, [i \in 1..Len(history) |->
                           [message |-> history[i], via |-> "db"]])
    /\ UNCHANGED <<query_vars, clients, planner_calls, store_vars>>

HistoryInit ==
    /\ ServiceIdle
    /\ vector_manager = "ok"
    /\ HistoryManagerNew
    /\ planner_calls = EmptyBag
    /\ StoresNew

HistoryNext ==
    \/ \E s \in HistorySessions : GetHistory(s)
    \/ \E s \in HistorySessions : AddUserMessage(s)
    \/ \E s \in HistorySessions : AddAiMessage(s)
    \/ \E s \in HistorySessions : ClearHistory(s)
    \/ \E s \in HistorySessions : DeleteSession(s)
    \/ \E s \in HistorySessions : \E db_roles \in StoredLists :
          SyncHistoryToManager(s, db_roles)

HistorySpec == HistoryInit /\ [][HistoryNext]_vars

(***************************************************************************)
(* The strategy stage on its own: pipeline runs that have reached the      *)
(* planner, for any UserContext and IntentAnalysis the stage accepts.      *)
(***************************************************************************)
MaxPlannerCalls == 3   \* calls of the strategy stage followed

\* accessible_folders lists a UserContext can carry, without duplicates:
\* those the user service builds (the public folder alone, with the caller's
\* department, or among all departments in database order) and lists
\* without the public folder, which the planner tests for
PlannerFolders ==
    {<<>>, <<PUBLIC>>, <<"hr">>, <<PUBLIC, "hr">>, <<"hr", "tech">>,
     <<PUBLIC, "hr", "tech">>, <<"tech", PUBLIC, "hr">>}

PlannerContexts ==
    {[user_id |-> "u1", department |-> d, accessible_folders |-> af,
      can_upload |-> FALSE] : d \in {PUBLIC, "hr"}, af \in PlannerFolders}

\* detected departments with confidences on both sides of 0.4 and 0.7
PlannerIntents ==
    {[detected_department |-> d, confidence |-> c, keywords |-> {}] :
        d \in {"hr"}, c \in {40, 45, 70, 75}}
    \cup {[detected_department |-> d, confidence |-> c, keywords |-> {}] :
        d \in {"tech"}, c \in {40, 45, 75}}
    \cup {[detected_department |-> PUBLIC, confidence |-> 45, keywords |-> {}],
          [detected_department |-> None, confidence |-> 90, keywords |-> {}]}

\* execute_pipeline has run user_context and query_intent
BeforePlanner ==
    <<[chain |-> "user_context", success |-> TRUE, degraded |-> FALSE],
      [chain |-> "query_intent", success |-> TRUE, degraded |-> FALSE]>>

PlannerInit ==
    /\ pc = "retrieval_strategy"
    /\ request \in {r \in Requests : r.path = "sync" /\ r.user_id = "u1"
                                     /\ r.question_words # 0}
    /\ user_context \in PlannerContexts
    /\ intent_analysis \in PlannerIntents
    /\ execution_results = BeforePlanner
    /\ vector_manager = "ok"
    /\ retrieval_strategy = NoStrategy
    /\ strategy_origin = None
    /\ documents = <<>>
    /\ search_calls = <<>>
    /\ retrieved = <<>>
    /\ pipeline_success = "pending"
    /\ error_msg = <<>>
    /\ query_result = NoResult
    /\ docs_to_use = <<>>
    /\ mode = None
    /\ stream_state = "not_started"
    /\ llm_calls = 0
    /\ full_answer = <<>>
    /\ events = <<>>
    /\ HistoryManagerNew
    /\ planner_calls = EmptyBag
    /\ StoresNew

\* execute_pipeline of another query of the same caller reaches the
\* strategy stage: new pipeline data, the same chain objects
NextRunReachesPlanner ==
    /\ pc = "document_retrieval"
    /\ BagCardinality(planner_calls) < MaxPlannerCalls
    /\ intent_analysis' \in PlannerIntents
    /\ execution_results' = BeforePlanner
    /\ retrieval_strategy' = NoStrategy
    /\ strategy_origin' = None
    /\ pc' = "retrieval_strategy"
    /\ UNCHANGED <<request, vector_manager, user_context, documents,
                   search_calls, retrieved, pipeline_success, error_msg,
                   query_result, answer_vars, events, histories,
                   session_vars, planner_calls, store_vars>>

PlannerNext ==
    \/ RetrievalStrategyStage
    \/ NextRunReachesPlanner

PlannerSpec == PlannerInit /\ [][PlannerNext]_vars

(***************************************************************************)
(* The streaming service with its except branch and the case where no     *)
(* query system was initialised.                                           *)
(***************************************************************************)
\* intelligent_router, legacy_query_router and vector_store are all None
\* (initialisation failed): the service yields one error event
ServiceNotInitialized ==
    /\ pc = "idle"
    /\ \E req \in {r \in Requests : r.path = "stream"} :
        request' = req
    /\ events' = <<"error">>
    /\ pc' = "done"
    /\ UNCHANGED <<vector_manager, pipeline_vars, query_result, answer_vars,
                   histories>>
    /\ UNCHANGED <<session_vars, planner_calls, store_vars>>

\* an exception escapes inside the try block of service_query_knowledge_stream
\* after route_query has returned: the except branch yields one error event
\* and the generator ends
StreamRaises ==
    /\ pc \in {"routed", "generating"}
    /\ request.path = "stream"
    /\ events' = Append(events, "error")
    /\ stream_state' = "service_raised"
    /\ pc' = "done"
    /\ UNCHANGED <<request, vector_manager, pipeline_vars, query_result,
                   docs_to_use, mode, llm_calls, full_answer, histories>>
    /\ UNCHANGED <<session_vars, planner_calls, store_vars>>

StreamNext ==
    \/ Next
    \/ ServiceNotInitialized
    \/ StreamRaises

StreamSpec == Init /\ [][StreamNext]_vars

(***************************************************************************)
(* chat_service: concurrent add_chat_message calls on one chat session,    *)
(* each with its own database session.                                     *)
(***************************************************************************)
MaxChatMessages == 4
ChatRoles == {"user", "assistant"}

\* add_chat_message up to the count query: the number of stored messages of
\* the session is read into message_count
AddChatMessageCount(w) ==
    /\ chat_writers[w].state = "idle"
    /\ Len(chat_messages) +
         Cardinality({v \in Writers : chat_writers[v].state = "counted"})
           < MaxChatMessages
    /\ \E role \in ChatRoles :
        chat_writers' = [chat_writers EXCEPT ![w] =
            [state |-> "counted", message_count |-> Len(chat_messages),
             role |-> role]]
    /\ UNCHANGED chat_messages
    /\ UNCHANGED <<pc, request, vector_manager, pipeline_vars, query_result,
                   answer_vars, events, histories>>
    /\ UNCHANGED <<session_vars, planner_calls, identity, llm_response, kb_vars>>

\* add_chat_message from db.add to db.commit: the row is stored with the
\* count read before as its sequence number
AddChatMessageCommit(w) ==
    /\ chat_writers[w].state = "counted"
    /\ chat_messages' = Append(chat_messages,
            [role |-> chat_writers[w].role,
             sequence |-> chat_writers[w].message_count])
    /\ chat_writers' = [chat_writers EXCEPT ![w] = IdleWriter]
    /\ UNCHANGED <<pc, request, vector_manager, pipeline_vars, query_result,
                   answer_vars, events, histories>>
    /\ UNCHANGED <<session_vars, planner_calls, identity, llm_response, kb_vars>>

\* get_chat_messages: the rows ordered by sequence; rows with equal
\* sequence numbers come in an order the database chooses
get_chat_messages ==
    LET n == Len(chat_messages)
        Orders == {o \in [1..n -> 1..n] :
                     /\ \A i, j \in 1..n : i # j => o[i] # o[j]
                     /\ \A i, j \in 1..n :
                          i < j => chat_messages[o[i]].sequence
                                     <= chat_messages[o[j]].sequence}
    IN {[i \in 1..n |-> o[i]] : o \in Orders}

ChatNext ==
    \/ \E w \in Writers : AddChatMessageCount(w)
    \/ \E w \in Writers : AddChatMessageCommit(w)

ChatSpec == Init /\ [][ChatNext]_vars

(***************************************************************************)
(* VectorManager: the vector store and the BM25 document cache under       *)
(* add_document, delete_document and update_document.                      *)
(***************************************************************************)
MaxDocChunks == 2
MaxCached == 4

\* document ids as character sequences; the second has the first as a prefix
DocumentIds == {<<"d", "1">>, <<"d", "1", "0">>, <<"d", "2">>}
TextVersions == {"v1", "v2"}

\* str.startswith
startswith(s, prefix) ==
    /\ Len(prefix) <= Len(s)
    /\ SubSeq(s, 1, Len(prefix)) = prefix

\* f"{document_id}_chunk_{i}"
chunk_id(document_id, i) == document_id \o <<"_chunk_", i>>

\* the chunks a service hands to add_document: text, metadata and id of
\* chunk i of n
NewChunks(document_id, n, version) ==
    [i \in 1..n |->
        [id |-> chunk_id(document_id, i - 1),
         page_content |-> <<version, i - 1>>,
         metadata |-> [document_id |-> document_id, chunk_index |-> i - 1]]]

\* the Document the cache keeps for a chunk
Document(chunk) ==
    [page_content |-> chunk.page_content, metadata |-> chunk.metadata]

\* add_document: add_texts of the batch (one batch for up to ten chunks),
\* which replaces entries that have the same ids, then the cache is
\* extended; when add_texts raises nothing is added and False is returned
add_document(store, cache, chunks, add_texts_ok) ==
    IF ~add_texts_ok
    THEN [store |-> store, cache |-> cache, result |-> FALSE]
    ELSE LET new_ids == {chunks[i].id : i \in 1..Len(chunks)}
         IN [store |-> {c \in store : c.id \notin new_ids}
                          \cup {chunks[i] : i \in 1..Len(chunks)},
             cache |-> cache \o [i \in 1..Len(chunks) |-> Document(chunks[i])],
             result |-> TRUE]

\* delete_document: the store loses every entry whose id starts with
\* document_id; the cache loses every Document whose metadata names
\* document_id; nothing changes when no id matches
delete_document(store, cache, document_id) ==
    LET chunk_ids == {c.id : c \in {e \in store : startswith(e.id, document_id)}}
    IN IF chunk_ids # {}
       THEN [store |-> {c \in store : c.id \notin chunk_ids},
             cache |-> SelectSeq(cache,
                          LAMBDA doc : doc.metadata.document_id # document_id),
             result |-> TRUE]
       ELSE [store |-> store, cache |-> cache, result |-> FALSE]

\* update_document: delete_document, then add_document under the same id
update_document(store, cache, document_id, chunks, add_texts_ok) ==
    LET deleted == delete_document(store, cache, document_id)
    IN add_document(deleted.store, deleted.cache, chunks, add_texts_ok)

KbFrame ==
    /\ UNCHANGED <<pc, request, vector_manager, pipeline_vars, query_result,
                   answer_vars, events, histories>>
    /\ UNCHANGED <<session_vars, planner_calls, identity, llm_response, chat_vars>>

\* service_upload_document: a document under an id no stored chunk carries
AddDocument ==
    /\ \E d \in DocumentIds, n \in 1..MaxDocChunks, version \in TextVersions,
          add_texts_ok \in BOOLEAN :
        /\ \A c \in store_chunks : c.metadata.document_id # d
        /\ Len(document_cache) + n <= MaxCached
        /\ LET r == add_document(store_chunks, document_cache,
                                 NewChunks(d, n, version), add_texts_ok)
           IN /\ store_chunks' = r.store
              /\ document_cache' = r.cache
    /\ KbFrame

\* service_delete_document: the id is the caller's
DeleteDocument(d) ==
    /\ LET r == delete_document(store_chunks, document_cache, d)
       IN /\ store_chunks' = r.store
          /\ document_cache' = r.cache
    /\ KbFrame

\* service_update_document
UpdateDocument ==
    /\ \E d \in DocumentIds, n \in 1..MaxDocChunks, version \in TextVersions,
          add_texts_ok \in BOOLEAN :
        LET r == update_document(store_chunks, document_cache, d,
                                 NewChunks(d, n, version), add_texts_ok)
        IN /\ Len(r.cache) <= MaxCached
           /\ store_chunks' = r.store
           /\ document_cache' = r.cache
    /\ KbFrame

KbNext ==
    \/ AddDocument
    \/ \E d \in DocumentIds : DeleteDocument(d)
    \/ UpdateDocument

KbSpec == Init /\ [][KbNext]_vars

(***************************************************************************)
(* The identity stage over every state of the identity store: department   *)
(* tables with and without a row for the public folder, users with and     *)
(* without a department and the view-all permission.                       *)
(***************************************************************************)
DepartmentTables == {<<"hr", "tech">>, <<"tech", PUBLIC, "hr">>}

IdentityLookups ==
    {[kind |-> "found", department |-> d, permissions |-> p, departments |-> t] :
        d \in {None} \cup Folders, t \in DepartmentTables,
        p \in {{}, {"document.upload"}, {"document.view_all"},
               {"document.view_all", "document.upload"}}}
    \cup
    {[kind |-> k, department |-> None, permissions |-> {}, departments |-> t] :
        k \in {"absent", "raises"}, t \in DepartmentTables}

\* a user's department is a row of the department table
IdentityRows ==
    {l \in IdentityLookups : l.department = None \/ InSeq(l.department, l.departments)}

UserContextIdentity == UserContextLookup(IdentityRows)

IdentityNext ==
    \/ Receive
    \/ UserContextIdentity

IdentitySpec == Init /\ [][IdentityNext]_vars

(***************************************************************************)
(* The intent stage over the classifier's raw text.                        *)
(***************************************************************************)
MaxResponseLen == 4   \* tokens of a classifier response

\* what llm.invoke can do: raise, answer with a text of at most max_len
\* tokens, or not be called at all (no LLM, no department list)
RawResponses(max_len) ==
    {[invoke |-> "ok", text |-> t] :
        t \in UNION {[1..n -> ResponseTokens] : n \in 0..max_len}}
    \cup {[invoke |-> i, text |-> <<>>] : i \in {"raises", "no_llm"}}

\* execute_pipeline has run user_context for an anonymous or a known caller;
\* llm_response is what the classifier is going to do when it is called
IntentInit ==
    /\ pc = "query_intent"
    /\ request \in {r \in Requests : r.path = "sync" /\ r.user_id = "u1"}
    /\ user_context \in {resolve_user_context(lookup) :
                            lookup \in {l \in Lookups : l.permissions = {}}}
    /\ intent_analysis = DefaultIntent
    /\ retrieval_strategy = NoStrategy
    /\ strategy_origin = None
    /\ documents = <<>>
    /\ search_calls = <<>>
    /\ retrieved = <<>>
    /\ execution_results =
          <<[chain |-> "user_context", success |-> TRUE, degraded |-> FALSE]>>
    /\ vector_manager = "ok"
    /\ pipeline_success = "pending"
    /\ error_msg = <<>>
    /\ query_result = NoResult
    /\ docs_to_use = <<>>
    /\ mode = None
    /\ stream_state = "not_started"
    /\ llm_calls = 0
    /\ full_answer = <<>>
    /\ events = <<>>
    /\ HistoryManagerNew
    /\ planner_calls = EmptyBag
    /\ llm_response \in RawResponses(MaxResponseLen)
    /\ identity = NoIdentity
    /\ chat_messages = <<>>
    /\ chat_writers = [w \in Writers |-> IdleWriter]
    /\ store_chunks = {}
    /\ document_cache = <<>>

QueryIntentText ==
    QueryIntentCall({[raw |-> llm_response, out |-> classify(llm_response)]})

IntentNext == QueryIntentText

IntentSpec == IntentInit /\ [][IntentNext]_vars

(***************************************************************************)
(* The retrieval stage on its own: pipeline runs that have reached         *)
(* document_retrieval, with a store that can fill every slot of a search.  *)
(***************************************************************************)
MaxHits == 4   \* chunks one search call can return

\* execute_pipeline has run the three chains before document_retrieval
BeforeRetrieval ==
    BeforePlanner \o
    <<[chain |-> "retrieval_strategy", success |-> TRUE, degraded |-> FALSE]>>

RetrievalInit ==
    /\ pc = "document_retrieval"
    /\ request \in {r \in Requests : r.path = "sync" /\ r.user_id = "u1"
                                     /\ r.question_words # 0}
    /\ user_context \in {resolve_user_context(lookup) : lookup \in Lookups}
    /\ intent_analysis \in {parse_ai_response(out) : out \in ClassifierOutputs}
    /\ strategy_origin \in {"determined", "fallback"}
    /\ retrieval_strategy =
          IF strategy_origin = "fallback"
          THEN create_fallback_strategy(user_context)
          ELSE determine_strategy(user_context, intent_analysis,
                                  request.question_words)
    /\ execution_results = BeforeRetrieval
    /\ vector_manager \in {"ok", "unavailable"}
    /\ documents = <<>>
    /\ search_calls = <<>>
    /\ retrieved = <<>>
    /\ pipeline_success = "pending"
    /\ error_msg = <<>>
    /\ query_result = NoResult
    /\ docs_to_use = <<>>
    /\ mode = None
    /\ stream_state = "not_started"
    /\ llm_calls = 0
    /\ full_answer = <<>>
    /\ events = <<>>
    /\ HistoryManagerNew
    /\ planner_calls = EmptyBag
    /\ StoresNew

DocumentRetrievalFilled == DocumentRetrieval(MaxHits)

RetrievalNext ==
    \/ DocumentRetrievalFilled
    \/ RouteQueryReturn

RetrievalSpec == RetrievalInit /\ [][RetrievalNext]_vars

(***************************************************************************)
(* Properties.                                                             *)
(***************************************************************************)
Ended == pc \in {"pipeline_end", "routed", "generating", "done"}
Executed(chain_name) ==
    \E i \in 1..Len(execution_results) : execution_results[i].chain = chain_name
Accessible(folder) == InSeq(folder, user_context.accessible_folders)

\* C1: every document the relevance-and-permission filter lets through (every
\* DocumentResult of the pipeline) has its department among the caller's
\* accessible folders and a score of at least the strategy's threshold.
C1_FilterOutputPermitted ==
    \A i \in 1..Len(documents) :
        /\ Accessible(documents[i].department)
        /\ documents[i].score >= retrieval_strategy.relevance_threshold

\* C2: the strategy the planner produced, by the decision logic or by the
\* fallback, names only folders the caller may read.
C2_StrategyWithinAccessible ==
    ToSet(retrieval_strategy.primary_folders)
        \cup ToSet(retrieval_strategy.secondary_folders)
    \subseteq ToSet(user_context.accessible_folders)

\* C2 witness: the planner ran on a query that targets a department the
\* caller cannot read, and fell back to the public folder.
C2_Witness ==
    /\ strategy_origin = "determined"
    /\ intent_analysis.detected_department = "tech"
    /\ ~Accessible("tech")
    /\ retrieval_strategy.primary_folders = <<PUBLIC>>
    /\ retrieval_strategy.secondary_folders = <<>>

C4_AbortGivesCleanError ==
    (pc = "done" /\ pipeline_success = "no") =>
        /\ mode = "error"
        /\ ~Contains(full_answer, error_msg)
        /\ llm_calls = 0

HighConfidenceUnauthorized ==
    /\ strategy_origin = "determined"
    /\ intent_analysis.detected_department # None
    /\ intent_analysis.confidence > 70
    /\ ~Accessible(intent_analysis.detected_department)

\* C5: a department detected with confidence > 0.7 that the caller cannot
\* read gives primary folders [public] (if accessible), and when no
\* candidate reaches answer synthesis the mode is Permission-denied, made
\* without a generation call.
C5_UnauthorizedGivesPermissionDenied ==
    (pc = "done" /\ request.path = "stream" /\ HighConfidenceUnauthorized) =>
        /\ retrieval_strategy.primary_folders =
              PublicIfAccessible(user_context.accessible_folders)
        /\ (Len(docs_to_use) = 0 =>
              (mode = "permission_denied" /\ llm_calls = 0))

NullScopeRun ==
    /\ pc = "done"
    /\ request.path = "stream"
    /\ pipeline_success = "yes"
    /\ intent_analysis.detected_department = None

\* C6 as stated: for every caller, a null detected department means no
\* retrieved document reaches answer generation and the mode is
\* General-knowledge.
C6_NullScopeBypassesGrounding ==
    NullScopeRun => (docs_to_use = <<>> /\ mode = "general_knowledge")

\* C6 amended: for every caller whose request role is not super_admin, a null
\* detected department means no retrieved document reaches answer
\* generation and the mode is General-knowledge.
C6_NullScopeBypassesGroundingUnlessSuperAdmin ==
    (NullScopeRun /\ request.user_role # "super_admin") =>
        (docs_to_use = <<>> /\ mode = "general_knowledge")

\* C6 witness: documents above the threshold were returned for a null-scope
\* query of an ordinary caller, and the answer was general knowledge.
C6_Witness ==
    /\ NullScopeRun
    /\ request.user_role = "employee"
    /\ Len(documents) > 0
    /\ docs_to_use = <<>>
    /\ mode = "general_knowledge"
    /\ llm_calls = 1

EmptyWithPermission ==
    /\ pc = "done"
    /\ request.path = "stream"
    /\ pipeline_success = "yes"
    /\ Len(docs_to_use) = 0
    /\ (retrieval_strategy.has_permission
           \/ intent_analysis.detected_department = None)

AuthorizedAtNinety ==
    /\ pc = "done"
    /\ request.path = "stream"
    /\ strategy_origin = "determined"
    /\ intent_analysis.detected_department # None
    /\ Accessible(intent_analysis.detected_department)
    /\ intent_analysis.confidence = 90

\* a retrieved candidate from the caller's accessible folders scoring 0.25
\* or more
GoodCandidate(d) == d.score >= 25 /\ Accessible(d.department)

\* C8 as stated: detected department accessible at confidence 0.9 gives
\* primary = [department], threshold 0.25, and Grounded mode whenever some
\* retrieved candidate from the accessible folders scores >= 0.25.
C8_GroundedOnAnyGoodCandidate ==
    AuthorizedAtNinety =>
        /\ retrieval_strategy.primary_folders = <<intent_analysis.detected_department>>
        /\ retrieval_strategy.relevance_threshold = 25
        /\ (\E i \in 1..Len(retrieved) : GoodCandidate(retrieved[i]))
              => mode = "grounded"

\* C8 amended: ... and Grounded mode whenever some retrieved candidate from
\* the accessible folders scores >= 0.25 and passes the intent filter of
\* the streaming service: the caller's request role is super_admin, or the
\* detected department is not a generic name (public, general, other) and
\* the candidate is of the detected department or its title contains the
\* department name or a keyword.
C8_GroundedOnRelevantGoodCandidate ==
    AuthorizedAtNinety =>
        /\ retrieval_strategy.primary_folders = <<intent_analysis.detected_department>>
        /\ retrieval_strategy.relevance_threshold = 25
        /\ (\E i \in 1..Len(retrieved) :
              /\ GoodCandidate(retrieved[i])
              /\ \/ request.user_role = "super_admin"
                 \/ /\ intent_analysis.detected_department \notin GenericDepartments
                    /\ document_is_relevant(retrieved[i],
                           intent_analysis.detected_department,
                           intent_analysis.keywords))
              => mode = "grounded"

\* C8 witness: the only good candidate is matched by a keyword in its title,
\* and the run is grounded.
C8_Witness ==
    /\ AuthorizedAtNinety
    /\ request.user_role = "employee"
    /\ Len(retrieved) = 1
    /\ retrieved[1].department = PUBLIC
    /\ intent_analysis.detected_department = "tech"
    /\ mode = "grounded"
    /\ Len(docs_to_use) = 1

AllSearchesFailed ==
    \/ vector_manager = "unavailable"
    \/ /\ Len(search_calls) > 0
       /\ \A i \in 1..Len(search_calls) : search_calls[i].outcome = "search_raises"

\* C9: when every search call fails, or the vector manager is unavailable,
\* the document_retrieval stage succeeds with an empty list, the pipeline is
\* not aborted, and the mode is General-knowledge.
C9_BackendDownGivesGeneralKnowledge ==
    (Executed("document_retrieval") /\ AllSearchesFailed) =>
        /\ execution_results[4].chain = "document_retrieval"
        /\ execution_results[4].success
        /\ documents = <<>>
        /\ pipeline_success = "yes"
        /\ (pc = "done" /\ request.path = "stream") => mode = "general_knowledge"

\* C9 witness: both tiers were searched, both calls raised, and the answer
\* was general knowledge for a department the caller may read.
C9_Witness ==
    /\ pc = "done"
    /\ request.path = "stream"
    /\ vector_manager = "ok"
    /\ Len(search_calls) = 2
    /\ AllSearchesFailed
    /\ intent_analysis.detected_department = "hr"
    /\ retrieval_strategy.has_permission
    /\ mode = "general_knowledge"

\* C10: when the generation call failed partway through, or the caller
\* disconnected mid-stream, nothing of that exchange is appended to the
\* session's history.
C10_NoCommitAfterFailedStream ==
    [][(stream_state = "raised" \/ stream_state' = "cancelled")
          => histories' = histories]_vars

\* the requests that completed on session s
DoneOn(s) == {c \in Clients : clients[c].state = "done" /\ clients[c].session_id = s}

\* the exchange of client c stands at positions i, i + 1 of history h
ExchangeAt(h, i, c) ==
    /\ i + 1 <= Len(h)
    /\ h[i] = [role |-> "user", content |-> Question(c)]
    /\ h[i + 1] = [role |-> "ai", content |-> clients[c].full_answer]

\* C11: with requests for one session interleaved at their suspension
\* points, the session's history consists of whole exchanges: each completed
\* request's user turn is immediately followed by its own assistant turn,
\* exactly once, nothing else is in the history, and its length is within
\* the cap.
C11_WholeExchangesUnderConcurrency ==
    \A s \in DOMAIN histories :
        LET h == histories[s] IN
        /\ Len(h) <= MaxMessages
        /\ Len(h) = 2 * Cardinality(DoneOn(s))
        /\ \A c \in DoneOn(s) :
              Cardinality({i \in 1..Len(h) : i % 2 = 1 /\ ExchangeAt(h, i, c)}) = 1

\* C11 witness: two requests of one session that overlapped (neither began
\* after the other had completed) have both completed.
C11_Witness ==
    /\ DoneOn("s1") = Clients
    /\ \A c \in Clients : clients[c].after = {}
    /\ Len(histories["s1"]) = 4

\* C14: two sequential queries of one session that both complete (grounded
\* or general-knowledge mode), starting from an empty history, leave exactly
\* the four messages user1, assistant1, user2, assistant2, each assistant
\* message being the concatenation of the chunks streamed for its query.
C14_SequentialQueriesInOrder ==
    \A c \in Clients : \A d \in Clients \ {c} : \A s \in {"s1", "s2"} :
        (/\ {c, d} \subseteq DoneOn(s)
         /\ c \in clients[d].after
         /\ {clients[c].mode, clients[d].mode} \subseteq {"grounded", "general_knowledge"})
        => histories[s] =
             << [role |-> "user", content |-> Question(c)],
                [role |-> "ai", content |-> clients[c].sent],
                [role |-> "user", content |-> Question(d)],
                [role |-> "ai", content |-> clients[d].sent] >>

\* C14 witness: the second query began after the first had completed; the
\* first was answered from general knowledge with a chunk after the marker,
\* the second was grounded.
C14_Witness ==
    /\ DoneOn("s1") = Clients
    /\ "c1" \in clients["c2"].after
    /\ clients["c1"].mode = "general_knowledge"
    /\ clients["c2"].mode = "grounded"
    /\ Len(clients["c1"].sent) > 1
    /\ Len(clients["c2"].sent) > 0
    /\ Len(histories["s1"]) = 4

\* the session was filled through the manager only since it was empty
ManagerOnly(s) ==
    \A i \in 1..Len(append_log[s]) : append_log[s][i].via = "manager"

\* C12: for a session starting empty, after N >= cap appends through
\* add_user_message / add_ai_message the history has exactly cap messages,
\* the last cap appended ones in append order, the oldest being the
\* (N - cap + 1)-th appended message.
C12_KeepsLastCapMessages ==
    \A s \in DOMAIN histories :
        LET h == histories[s]
            N == Len(append_log[s])
        IN (ManagerOnly(s) /\ N >= MaxMessages) =>
              /\ Len(h) = MaxMessages
              /\ \A i \in 1..MaxMessages :
                    h[i] = append_log[s][N - MaxMessages + i].message
              /\ h[1].content = Text(N - MaxMessages + 1)

\* C12 witness: more appends than the cap, of both roles.
C12_Witness ==
    /\ "s1" \in DOMAIN histories
    /\ ManagerOnly("s1")
    /\ Len(append_log["s1"]) = MaxMessages + 2
    /\ histories["s1"][1] = [role |-> "ai", content |-> Text(3)]
    /\ histories["s1"][MaxMessages].role = "user"

\* C13: in every state reachable by history operations, every session's
\* message list has at most max_messages messages.
C13_HistoryWithinCap ==
    \A s \in DOMAIN histories : Len(histories[s]) <= MaxMessages

\* the calls of the strategy stage so far
Calls == BagToSet(planner_calls)
Determined == {call \in Calls : call.origin = "determined"}
Fallbacks == {call \in Calls : call.origin = "fallback"}
Detected(call) == call.intent_analysis.detected_department
Confidence(call) == call.intent_analysis.confidence
FoldersOf(call) == call.user_context.accessible_folders
PublicOrNothing(af) == IF InSeq(PUBLIC, af) THEN <<PUBLIC>> ELSE <<>>

\* C15: a department detected with confidence > 0.4 that the caller cannot
\* read gives primary_folders = [public] if public is accessible and []
\* otherwise, secondary_folders = [] and has_permission = false; the
\* caller's own department, unless it is the public folder, is not searched.
C15_UnauthorizedSearchesPublicOnly ==
    \A call \in Determined :
        (/\ Detected(call) # None
         /\ Confidence(call) > 40
         /\ ~InSeq(Detected(call), FoldersOf(call)))
        => /\ call.strategy.primary_folders = PublicOrNothing(FoldersOf(call))
           /\ call.strategy.secondary_folders = <<>>
           /\ call.strategy.has_permission = FALSE
           /\ call.user_context.department # PUBLIC
                => ~InSeq(call.user_context.department,
                          call.strategy.primary_folders \o call.strategy.secondary_folders)

\* C15 witness: a caller of department hr who may read public and hr asks
\* about tech with medium confidence.
C15_Witness ==
    \E call \in Determined :
        /\ Detected(call) = "tech"
        /\ Confidence(call) = 45
        /\ FoldersOf(call) = <<PUBLIC, "hr">>
        /\ call.user_context.department = "hr"
        /\ call.strategy.primary_folders = <<PUBLIC>>

\* C16: a detected department the caller may read gives, for confidence >
\* 0.7, primary = [detected] and secondary = the other accessible folders;
\* for 0.4 < confidence <= 0.7, primary = [detected, public] (public only if
\* accessible and distinct from detected) and secondary = the accessible
\* folders not in primary; secondary keeps the order of accessible_folders
\* and has_permission = true.
C16_AuthorizedSearchesDetectedFirst ==
    \A call \in Determined :
        LET af == FoldersOf(call)
            d == Detected(call)
            expected_primary ==
                IF Confidence(call) > 70 THEN <<d>>
                ELSE IF InSeq(PUBLIC, af) /\ PUBLIC # d THEN <<d, PUBLIC>> ELSE <<d>>
        IN (d # None /\ Confidence(call) > 40 /\ InSeq(d, af))
           => /\ call.strategy.primary_folders = expected_primary
              /\ call.strategy.secondary_folders =
                    SelectSeq(af, LAMBDA f : ~InSeq(f, expected_primary))
              /\ call.strategy.has_permission = TRUE

\* C16 witness: confidence exactly 0.7 is medium; public is added after the
\* detected department and the rest keeps its order.
C16_Witness ==
    \E call \in Determined :
        /\ Detected(call) = "hr"
        /\ Confidence(call) = 70
        /\ FoldersOf(call) = <<"tech", PUBLIC, "hr">>
        /\ call.strategy.primary_folders = <<"hr", PUBLIC>>
        /\ call.strategy.secondary_folders = <<"tech">>

\* C17: with no department detected or confidence <= 0.4, a caller whose own
\* department is accessible and not the public folder gets primary = [own
\* department] and secondary = all other accessible folders; otherwise
\* primary = the first two accessible folders (all of them if fewer than
\* two) and secondary = the remaining ones.
C17_AmbiguousPrefersHomeScope ==
    \A call \in Determined :
        LET af == FoldersOf(call)
            own == call.user_context.department
        IN (Detected(call) = None \/ Confidence(call) <= 40)
           => IF InSeq(own, af) /\ own # PUBLIC
              THEN /\ call.strategy.primary_folders = <<own>>
                   /\ call.strategy.secondary_folders =
                         SelectSeq(af, LAMBDA f : f # own)
              ELSE /\ call.strategy.primary_folders =
                         (IF Len(af) < 2 THEN af ELSE SubSeq(af, 1, 2))
                   /\ call.strategy.secondary_folders =
                         (IF Len(af) <= 2 THEN <<>> ELSE SubSeq(af, 3, Len(af)))

\* C17 witness: confidence exactly 0.4 counts as ambiguous; the caller's
\* department is the public folder, so the first two folders are primary.
C17_Witness ==
    \E call \in Determined :
        /\ Detected(call) = "hr"
        /\ Confidence(call) = 40
        /\ call.user_context.department = PUBLIC
        /\ FoldersOf(call) = <<PUBLIC, "hr", "tech">>
        /\ call.strategy.primary_folders = <<PUBLIC, "hr">>
        /\ call.strategy.secondary_folders = <<"tech">>

NoDuplicates(seq) == \A i \in 1..Len(seq) : \A j \in 1..Len(seq) :
                        seq[i] = seq[j] => i = j

\* C18: every strategy the stage outputs, by the decision logic or by the
\* fallback, has no folder in both primary_folders and secondary_folders
\* and no folder twice in either list.
C18_FoldersDisjointAndUnique ==
    \A call \in Calls :
        NoDuplicates(call.strategy.primary_folders \o call.strategy.secondary_folders)

\* C19: the default strategy substituted when strategy determination fails
\* has primary = [public] if public is accessible and [] otherwise,
\* secondary = [], max_results = 5 and relevance_threshold = 0.3.
C19_FallbackIsPublicOnly ==
    \A call \in Fallbacks :
        /\ call.strategy.primary_folders = PublicOrNothing(FoldersOf(call))
        /\ call.strategy.secondary_folders = <<>>
        /\ call.strategy.max_results = 5
        /\ call.strategy.relevance_threshold = 30

SameInputs(a, b) ==
    /\ a.user_context = b.user_context
    /\ a.intent_analysis = b.intent_analysis
    /\ a.words = b.words

C21_RankedByScoreWithinMax ==
    Executed("document_retrieval") =>
        /\ \A i \in 1..Len(documents) : \A j \in 1..Len(documents) :
              i < j => documents[i].score >= documents[j].score
        /\ Len(documents) <= retrieval_strategy.max_results

CallsOfTier(tier) == SelectSeq(search_calls, LAMBDA c : c.tier = tier)
PrimaryCount == IF Len(retrieval_strategy.primary_folders) > 0
                THEN search_calls[1].n ELSE 0

\* C22: the primary folders are searched first with k = max_results; the
\* secondary folders are searched if and only if the primary search returned
\* fewer than max_results documents and secondary_folders is non-empty, and
\* then with k = max_results minus the number of primary results; primary
\* results precede secondary results and the total is at most max_results.
C22_LayeredRetrieval ==
    (Executed("document_retrieval") /\ vector_manager = "ok") =>
        LET strategy == retrieval_strategy
            primary == CallsOfTier("primary")
            secondary == CallsOfTier("secondary")
        IN /\ Len(strategy.primary_folders) > 0 =>
                 /\ Len(search_calls) >= 1
                 /\ search_calls[1].tier = "primary"
                 /\ search_calls[1].k = strategy.max_results
           /\ Len(primary) <= 1 /\ Len(secondary) <= 1
           /\ Len(secondary) = 1 <=>
                 (/\ PrimaryCount < strategy.max_results
                  /\ Len(strategy.secondary_folders) > 0)
           /\ Len(secondary) = 1 =>
                 /\ secondary[1].k = strategy.max_results - PrimaryCount
                 /\ search_calls[Len(search_calls)] = secondary[1]
           /\ [i \in 1..Len(retrieved) |-> retrieved[i].document_id] =
                 (IF Len(primary) = 1 THEN primary[1].ids ELSE <<>>)
                 \o (IF Len(secondary) = 1 THEN secondary[1].ids ELSE <<>>)
           /\ Len(retrieved) <= strategy.max_results

\* C22 witness: one run where the primary search filled every slot and the
\* secondary folders, although there are some, were not searched.
C22_Witness ==
    /\ Executed("document_retrieval")
    /\ Len(retrieval_strategy.secondary_folders) > 0
    /\ Len(search_calls) = 1
    /\ search_calls[1].tier = "primary"
    /\ search_calls[1].n = retrieval_strategy.max_results

StageIndex(chain_name) ==
    CHOOSE i \in 1..Len(execution_order) : execution_order[i] = chain_name

\* C23: in every pipeline run each stage executes at most once and in the
\* fixed order user_context, query_intent, retrieval_strategy,
\* document_retrieval; a stage starts only after the previous stage has
\* returned successfully, with the outputs of the earlier stages, and once a
\* stage has failed no later stage executes.
C23_StagesInFixedOrder ==
    LET n == Len(execution_results) IN
    /\ n <= Len(execution_order)
    /\ \A i \in 1..n : execution_results[i].chain = execution_order[i]
    /\ \A i \in 1..(n - 1) : execution_results[i].success
    /\ pc \in ToSet(execution_order) =>
          /\ n = StageIndex(pc) - 1
          /\ \A i \in 1..n : execution_results[i].success
    /\ pc \in {"query_intent", "retrieval_strategy", "document_retrieval"} =>
          user_context # NoUserContext
    /\ pc = "document_retrieval" =>
          /\ retrieval_strategy # NoStrategy
          /\ strategy_origin = "determined" =>
                retrieval_strategy.has_permission =
                    (intent_analysis.detected_department # None =>
                        Accessible(intent_analysis.detected_department))
    /\ (n >= 1 /\ ~execution_results[n].success) =>
          /\ pc \notin ToSet(execution_order)
          /\ retrieval_strategy = NoStrategy
          /\ search_calls = <<>>

\* C23 witness: the run was aborted by query_intent after user_context had
\* delivered its output; the two later stages never ran.
C23_Witness ==
    /\ pc = "pipeline_end"
    /\ Len(execution_results) = 2
    /\ execution_results[1].success
    /\ ~execution_results[2].success
    /\ user_context # NoUserContext

ViewAll == "document.view_all" \in identity.permissions

\* C24: for every identity the resolved accessible folder list contains the
\* public folder and no folder twice; a user without view-all gets exactly
\* public plus their own department (when they have one other than public);
\* a user with view-all gets every department known to the store; and when
\* the lookup fails or the identity is absent the result is the anonymous
\* context with accessible folders exactly [public] and can_upload = false.
C24_AccessibleFolders ==
    (Len(execution_results) >= 1 /\ execution_results[1].success) =>
        LET af == user_context.accessible_folders IN
        /\ InSeq(PUBLIC, af)
        /\ NoDuplicates(af)
        /\ (identity.kind = "found" /\ ~ViewAll) =>
              af = IF identity.department \notin {None, PUBLIC}
                   THEN <<PUBLIC, identity.department>> ELSE <<PUBLIC>>
        /\ (identity.kind = "found" /\ ViewAll) =>
              ToSet(af) = ToSet(identity.departments) \cup {PUBLIC}
        /\ identity.kind \in {"absent", "raises"} =>
              /\ af = <<PUBLIC>>
              /\ user_context.can_upload = FALSE
              /\ user_context.user_id = "anonymous"

\* C24 witness: a user with view-all and no department, and a department
\* table without a row for the public folder.
C24_Witness ==
    /\ Len(execution_results) = 1
    /\ identity.kind = "found"
    /\ ViewAll
    /\ identity.department = None
    /\ identity.departments = <<"hr", "tech">>
    /\ user_context.accessible_folders = <<PUBLIC, "hr", "tech">>

\* the text from the first "{" to the last "}" of the classifier's response
BraceSpan ==
    LET text == llm_response.text
        opens == {i \in 1..Len(text) : text[i] = "{"}
        closes == {i \in 1..Len(text) : text[i] = "}"}
    IN IF opens = {} \/ closes = {} THEN <<>>
       ELSE LET first == CHOOSE i \in opens : \A j \in opens : i <= j
                last == CHOOSE i \in closes : \A j \in closes : j <= i
            IN IF first < last THEN SubSeq(text, first, last) ELSE <<>>

\* no object in the response, or one that is not valid JSON
Unparsable ==
    \/ BraceSpan = <<>>
    \/ \E i \in 2..(Len(BraceSpan) - 1) : BraceSpan[i] \in {"{", "}", "prose"}

\* the last confidence entry of the object is one float() cannot convert
ConfidenceNotFloat ==
    \E i \in 1..Len(BraceSpan) :
        /\ BraceSpan[i] \in {"conf_word", "conf_null"}
        /\ \A j \in (i + 1)..Len(BraceSpan) :
              BraceSpan[j] \notin {"conf_90", "conf_str_45", "conf_word", "conf_null"}

\* C25: if the text from the first '{' to the last '}' of the classifier
\* output is absent or is not a valid JSON object, or its confidence cannot
\* be converted to a float, or the LLM call itself fails, the intent stage
\* still succeeds and yields detected_department = null, confidence = 0 and
\* keywords = []; the pipeline is not aborted.
C25_UnparsableGivesDefaultIntent ==
    (/\ Executed("query_intent")
     /\ request.question_words # 0
     /\ (llm_response.invoke = "raises" \/ Unparsable \/ ConfidenceNotFloat)) =>
            /\ execution_results[Len(execution_results)].success
            /\ pc = "retrieval_strategy"
            /\ pipeline_success = "pending"
            /\ intent_analysis.detected_department = None
            /\ intent_analysis.confidence = 0
            /\ intent_analysis.keywords = {}

\* C25 witness: a well-formed object that names a department, with a
\* confidence float() cannot convert.
C25_Witness ==
    /\ Executed("query_intent")
    /\ llm_response.invoke = "ok"
    /\ llm_response.text = <<"{", "dept_hr", "conf_word", "}">>
    /\ intent_analysis = DefaultIntent

\* C26: a query whose text is empty or whitespace-only is rejected before
\* the pipeline starts: no pipeline stage executes for it (no identity-store
\* lookup, no classifier call, no search) and no answer-generation call is
\* made.
C26_BlankQueryRejectedBeforePipeline ==
    (pc # "idle" /\ request.question_words = 0) =>
        /\ execution_results = <<>>
        /\ identity = NoIdentity
        /\ search_calls = <<>>
        /\ llm_calls = 0

TerminalEvents == {i \in 1..Len(events) : events[i] \in {"complete", "error"}}

\* C27: every run of the streaming query service that is read to its end
\* emits exactly one terminal event, 'complete' or 'error', and it is the
\* last event of the run; every 'content' event comes after the
\* 'llm_generation' status event and before the terminal event; a run that
\* emitted 'error' never also emits 'complete'.
C27_OneTerminalEventLast ==
    /\ Cardinality(TerminalEvents) <= 1
    /\ \A i \in TerminalEvents : i = Len(events)
    /\ \A i \in 1..Len(events) :
          events[i] = "content" =>
              \E j \in 1..(i - 1) : events[j] = "llm_generation"
    /\ (pc = "done" /\ request.path = "stream" /\ stream_state # "cancelled") =>
          Cardinality(TerminalEvents) = 1
    /\ ~(InSeq("error", events) /\ InSeq("complete", events))

\* C27 witness: a run that had streamed content when an exception escaped.
C27_Witness ==
    /\ pc = "done"
    /\ stream_state = "service_raised"
    /\ Len(events) >= 2
    /\ events[Len(events)] = "error"
    /\ events[Len(events) - 1] = "content"

\* the documents of query_result: those of the retrieval stage, none in an
\* error result
result_documents ==
    IF query_result.source_type = "error" THEN <<>> ELSE documents

\* the data of the complete event: fixed in the permission-denied branch,
\* read from query_result in the other
complete_event ==
    IF mode = "permission_denied"
    THEN [source_count |-> 0, strategy |-> "permission_denied"]
    ELSE [source_count |-> Len(result_documents),
          strategy |-> query_result.source_type]

\* C28: in the complete event of a streaming query, strategy is
\* 'document_based' only if at least one document was passed to answer
\* generation, and source_count equals the number of documents passed to
\* answer generation.
C28_CompleteEventDescribesGeneration ==
    (/\ pc = "done"
     /\ request.path = "stream"
     /\ Len(events) > 0
     /\ events[Len(events)] = "complete") =>
        /\ complete_event.strategy = "document_based" => Len(docs_to_use) > 0
        /\ complete_event.source_count = Len(docs_to_use)

\* C29: after any interleaving of concurrent add_chat_message calls on one
\* chat session the stored messages have pairwise distinct sequence numbers
\* that form exactly 0..n-1, so get_chat_messages returns them in insertion
\* order.
C29_SequenceNumbersDistinct ==
    LET n == Len(chat_messages)
    IN /\ \A i, j \in 1..n :
             i # j => chat_messages[i].sequence # chat_messages[j].sequence
       /\ {chat_messages[i].sequence : i \in 1..n} = 0..(n - 1)
       /\ get_chat_messages = {[i \in 1..n |-> i]}

\* the chunks of document d in the store, and all the others
StoreOf(store, d) == {c \in store : c.metadata.document_id = d}
CacheWithout(cache, d) == SelectSeq(cache, LAMBDA doc : doc.metadata.document_id # d)

\* C30: delete_document(d) removes from both the vector store and the BM25
\* cache exactly the chunks of document d and leaves the chunks of every
\* other document unchanged in both, also those of a document whose id has
\* d as a prefix; so after any sequence of add_document, delete_document
\* and update_document calls the cache and the store hold the same set of
\* chunks.
C30_DeleteRemovesExactlyTheDocument ==
    /\ [][\A d \in DocumentIds :
            DeleteDocument(d) =>
                /\ store_chunks' = store_chunks \ StoreOf(store_chunks, d)
                /\ document_cache' = CacheWithout(document_cache, d)]_vars
    /\ [](  {Document(c) : c \in store_chunks}
          = {document_cache[i] : i \in 1..Len(document_cache)})

====
